---- MODULE Spec2Model ----
(***************************************************************************)
(* ReefBuddy store-asset scripts.                                          *)
(*                                                                         *)
(*   src/resize-screenshots.py     the screenshot resizer and its CLI      *)
(*   src/generate-store-assets.py  the icon / mockup generator             *)
(*                                                                         *)
(* One behaviour is one run of one of the two scripts (prog).  The         *)
(* environment of the run (command line, what is stored at the input path, *)
(* whether the output directory exists, which font files load) is drawn in *)
(* Init and kept in env; the outcome of each filesystem or library call    *)
(* that can fail is drawn when the call is made.                           *)
(***************************************************************************)
EXTENDS Integers, Sequences, FiniteSets, TLC

VARIABLES
    prog,           \* which script runs: "resizer" or "generator"
    env,            \* the environment the run started in (never changes)
    pc,             \* position of the running script
    dirs,           \* directories on disk
    files,          \* files written: path -> [image, writes]
    log,            \* lines printed, in order
    img,            \* resizer: the image Image.open returned (NoImage before)
    idx,            \* resizer: position of the for loop in SCREENSHOT_SIZES
    success_count,  \* resizer: the success counter
    result,         \* resizer: what resize_screenshot returned
    exitCode,       \* resizer: exit status of the process (NotExited before)
    met,            \* resizer: what each pass of the loop met, in order
    dev,            \* generator: position of the loop over screenshot_configs
    view,           \* generator: position of the loop over screenshot_views
    canvas          \* generator: the image rendered last (icon / screenshot)

rvars == <<img, idx, success_count, result, exitCode, met>>
gvars == <<dev, view, canvas>>

\* a path is a directory (its components) and a file name (its parts)
Parents(d) == { SubSeq(d, 1, k) : k \in 1..Len(d) }

\* Image.save(path, 'PNG'): the file holds the image; writes counts the
\* times the path was written in this run
Write(fs, path, image) ==
    [p \in DOMAIN fs \cup {path} |->
        IF p = path
        THEN [image |-> image,
              writes |-> IF path \in DOMAIN fs THEN fs[path].writes + 1 ELSE 1]
        ELSE fs[p]]

----------------------------------------------------------------------------
(* Bounds of the model *)

\* input images of MaxScale further sizes besides the four target sizes
MaxScale == 1

----------------------------------------------------------------------------
(* src/resize-screenshots.py *)

\* the dict keeps insertion order: this is the order the loop visits
TargetOrder ==
    << "iphone_67_portrait", "iphone_67_landscape",
       "iphone_65_portrait", "iphone_65_landscape" >>

SCREENSHOT_SIZES ==
    [ iphone_67_portrait  |-> <<1284, 2778>>,
      iphone_67_landscape |-> <<2778, 1284>>,
      iphone_65_portrait  |-> <<1242, 2688>>,
      iphone_65_landscape |-> <<2688, 1242>> ]

Targets == { TargetOrder[i] : i \in 1..Len(TargetOrder) }

NoImage == [size |-> <<0, 0>>, data |-> "none"]
NotExited == -1

\* what can be stored at the input path
\*   missing     nothing
\*   not_image   a file Image.open rejects
\*   truncated   a file whose header parses (Image.open is lazy and returns)
\*               but whose pixel data fails to decode when first loaded
\*   image       a decodable image
InputKinds == {"missing", "not_image", "truncated", "image"}

InputSizes ==
    { SCREENSHOT_SIZES[t] : t \in Targets }
        \cup { <<640 * k, 480 * k>> : k \in 1..MaxScale }

\* sys.argv of the resizer
ArgvChoices ==
    { << "resize-screenshots.py" >>,
      << "resize-screenshots.py", "in.png" >>,
      << "resize-screenshots.py", "in.png", "tank-list" >>,
      << "resize-screenshots.py", "in.png", "tank-list", "out" >> }

ResizerEnvs ==
    { [argv |-> a, kind |-> k, size |-> s, dirExists |-> d] :
        a \in ArgvChoices, k \in InputKinds, s \in InputSizes, d \in BOOLEAN }

\* main, lines 77-79
input_file == env.argv[2]
view_name  == IF Len(env.argv) > 2 THEN env.argv[3] ELSE "screenshot"
output_arg == IF Len(env.argv) > 3 THEN env.argv[4] ELSE "None"

\* resize_screenshot, lines 36-39
output_dir ==
    IF output_arg # "None" THEN <<output_arg>>
    ELSE <<"assets", "upload-store", "real-screenshots">>

\* line 46: output_dir / f"{size_name}_{view_name}.png"
output_path(size_name) == [dir |-> output_dir, name |-> <<size_name, view_name>>]

\* line 50: Image.resize returns a new image of the requested size
Resize(image, width, height) == [size |-> <<width, height>>, data |-> image.data]

\* a verification that accepts whatever was read back
Verified_Any(vsize, width, height) == TRUE

\* a verification that compares the number of pixels only
Verified_AreaOnly(vsize, width, height) == vsize[1] * vsize[2] = width * height

\* line 55
Verified(vsize, width, height) == vsize = <<width, height>>

\* a result that asks for one success only
ReturnValue_Any(count) == count > 0

\* line 65
ReturnValue(count) == count = Len(TargetOrder)

\* a loop that a failing target ends
NextTarget_StopOnError(i, outcome) ==
    IF outcome \in {"resize_raise", "save_raise", "verify_raise"}
    THEN Len(TargetOrder) + 1
    ELSE i + 1

\* the for loop of line 45: after the body, whether it completed or its
\* exception was caught by the handler of lines 60-61, the next target
NextTarget(i, outcome) == i + 1

Say(line) == log' = Append(log, line)

\* main, lines 68-75: no argument given
Usage ==
    /\ prog = "resizer" /\ pc = "main"
    /\ Len(env.argv) < 2
    /\ Say([msg |-> "usage", target |-> "-"])
    /\ exitCode' = 1
    /\ pc' = "exited"
    /\ UNCHANGED <<prog, env, img, dirs, files, idx, success_count, result, met, gvars>>

\* main, lines 77-87: parse the arguments and call resize_screenshot
Call ==
    /\ prog = "resizer" /\ pc = "main"
    /\ Len(env.argv) >= 2
    /\ Say([msg |-> "banner", target |-> "-"])
    /\ pc' = "check"
    /\ UNCHANGED <<prog, env, img, dirs, files, idx, success_count, result, exitCode, met, gvars>>

\* a missing file reported as a success
FileNotFound_ReturnsTrue ==
    /\ prog = "resizer" /\ pc = "check"
    /\ env.kind = "missing"
    /\ Say([msg |-> "not_found", target |-> "-"])
    /\ result' = "True"
    /\ pc' = "returned"
    /\ UNCHANGED <<prog, env, img, dirs, files, idx, success_count, exitCode, met, gvars>>

\* lines 23-25
FileNotFound ==
    /\ prog = "resizer" /\ pc = "check"
    /\ env.kind = "missing"
    /\ Say([msg |-> "not_found", target |-> "-"])
    /\ result' = "False"
    /\ pc' = "returned"
    /\ UNCHANGED <<prog, env, img, dirs, files, idx, success_count, exitCode, met, gvars>>

FileFound ==
    /\ prog = "resizer" /\ pc = "check"
    /\ env.kind # "missing"
    /\ pc' = "open"
    /\ UNCHANGED <<prog, env, img, dirs, files, idx, success_count, log, result, exitCode, met, gvars>>

\* lines 28-33: Image.open reads the header only; it raises when there is
\* no file or no image header
LoadImage ==
    /\ prog = "resizer" /\ pc = "open"
    /\ IF env.kind \in {"missing", "not_image"}
       THEN /\ Say([msg |-> "load_error", target |-> "-"])
            /\ result' = "False"
            /\ pc' = "returned"
            /\ img' = img
       ELSE /\ img' = [size |-> env.size,
                       data |-> IF env.kind = "truncated" THEN "bad" ELSE "ok"]
            /\ Say([msg |-> "loaded", target |-> "-"])
            /\ pc' = "mkdir"
            /\ result' = result
    /\ UNCHANGED <<prog, env, dirs, files, idx, success_count, exitCode, met, gvars>>

\* line 41: output_dir.mkdir(parents=True, exist_ok=True), outside any try.
\* An existing directory is accepted; creating one can fail (a parent that
\* is not writable, a path component that is a file).
MakeDir ==
    /\ prog = "resizer" /\ pc = "mkdir"
    /\ \E ok \in BOOLEAN :
         /\ (output_dir \in dirs) => ok
         /\ IF ok
            THEN /\ dirs' = dirs \cup Parents(output_dir)
                 /\ success_count' = 0
                 /\ idx' = 1
                 /\ pc' = "loop"
                 /\ result' = result
            ELSE /\ result' = "raised"
                 /\ pc' = "returned"
                 /\ UNCHANGED <<dirs, success_count, idx>>
    /\ UNCHANGED <<prog, env, img, files, log, exitCode, met, gvars>>

\* what one pass of the loop body can meet
\*   resize_raise   img.resize raises (always, when the pixel data is bad)
\*   save_raise     resized.save raises: the path cannot be written
\*   verify_raise   the file is written but Image.open of it raises
\*   mismatch       the file read back has other dimensions than the target
\*   ok             the file read back has the target's dimensions
Outcomes == {"resize_raise", "save_raise", "verify_raise", "mismatch", "ok"}

\* the dimensions Image.open reports for the file at the output path
ReadBack(written, outcome) ==
    IF outcome = "mismatch" THEN <<written[2], written[1]>> ELSE written

\* lines 45-61: one pass of the loop body
ResizeTarget ==
    /\ prog = "resizer" /\ pc = "loop"
    /\ idx <= Len(TargetOrder)
    /\ \E outcome \in Outcomes :
        LET size_name == TargetOrder[idx]
            width     == SCREENSHOT_SIZES[size_name][1]
            height    == SCREENSHOT_SIZES[size_name][2]
            resized   == Resize(img, width, height)
            onDisk    == ReadBack(resized.size, outcome)
        IN  /\ (img.data = "bad") => outcome = "resize_raise"
            /\ files' =
                 IF outcome \in {"resize_raise", "save_raise"} THEN files
                 ELSE Write(files, output_path(size_name),
                            [size |-> onDisk, data |-> resized.data])
            /\ IF outcome \in {"resize_raise", "save_raise", "verify_raise"}
               THEN /\ Say([msg |-> "error", target |-> size_name])
                    /\ success_count' = success_count
               ELSE IF Verified(onDisk, width, height)
               THEN /\ Say([msg |-> "created", target |-> size_name])
                    /\ success_count' = success_count + 1
               ELSE /\ Say([msg |-> "warning", target |-> size_name])
                    /\ success_count' = success_count
            /\ idx' = NextTarget(idx, outcome)
            /\ met' = Append(met, [target |-> size_name, outcome |-> outcome])
    /\ UNCHANGED <<prog, env, pc, img, dirs, result, exitCode, gvars>>

\* a return that cleans up after an incomplete batch
Return_Rollback ==
    /\ prog = "resizer" /\ pc = "loop"
    /\ idx > Len(TargetOrder)
    /\ Say([msg |-> "summary", target |-> "-"])
    /\ result' = IF ReturnValue(success_count) THEN "True" ELSE "False"
    /\ files' = IF ReturnValue(success_count) THEN files ELSE << >>
    /\ pc' = "returned"
    /\ UNCHANGED <<prog, env, img, dirs, idx, success_count, exitCode, met, gvars>>

\* lines 63-65
Return ==
    /\ prog = "resizer" /\ pc = "loop"
    /\ idx > Len(TargetOrder)
    /\ Say([msg |-> "summary", target |-> "-"])
    /\ result' = IF ReturnValue(success_count) THEN "True" ELSE "False"
    /\ pc' = "returned"
    /\ UNCHANGED <<prog, env, img, dirs, files, idx, success_count, exitCode, met, gvars>>

\* line 88: sys.exit(0 if success else 1); an exception nobody caught ends
\* the interpreter with status 1
Exit ==
    /\ prog = "resizer" /\ pc = "returned"
    /\ exitCode' = IF result = "True" THEN 0 ELSE 1
    /\ pc' = "exited"
    /\ UNCHANGED <<prog, env, img, dirs, files, idx, success_count, log, result, met, gvars>>

----------------------------------------------------------------------------
(* src/generate-store-assets.py: fonts and drawing primitives *)

DEVICE_SIZES ==
    [ iphone_67 |-> <<1290, 2796>>,
      iphone_65 |-> <<1242, 2688>>,
      iphone_55 |-> <<1242, 2208>>,
      ipad_129  |-> <<2048, 2732>>,
      ipad_11   |-> <<1668, 2388>> ]

BoldFonts ==
    << "/System/Library/Fonts/Supplemental/Arial Bold.ttf",
       "/Library/Fonts/Arial Bold.ttf" >>

RegularFonts ==
    << "/System/Library/Fonts/Supplemental/Arial.ttf",
       "/Library/Fonts/Arial.ttf" >>

FontPaths == { BoldFonts[1], BoldFonts[2], RegularFonts[1], RegularFonts[2] }

\* ImageFont.truetype(path, size): raises unless the file at path loads
TrueType(path, size) == [kind |-> "truetype", path |-> path, size |-> size]

\* ImageFont.load_default(): the built-in font, whatever size was asked
DefaultFont == [kind |-> "default", path |-> "-", size |-> 10]

\* a chain that gives up after the first candidate
get_font_SkipSecond(size, bold) ==
    LET candidates == IF bold THEN BoldFonts ELSE RegularFonts
    IN  IF candidates[1] \in env.fonts THEN TrueType(candidates[1], size)
        ELSE DefaultFont

\* lines 30-52: env.fonts are the font files that load in this environment
get_font(size, bold) ==
    LET candidates == IF bold THEN BoldFonts ELSE RegularFonts
    IN  IF candidates[1] \in env.fonts THEN TrueType(candidates[1], size)
        ELSE IF candidates[2] \in env.fonts THEN TrueType(candidates[2], size)
        ELSE DefaultFont

\* int(x * f) for the fractions f = permille / 1000 of the source; the
\* integer quotient equals Python's int(x * f) for every fraction the
\* source uses and every 0 <= x < 3000
Pct(x, permille) == (x * permille) \div 1000

\* number of characters of the strings the source measures
TextLen(s) ==
    CASE s = "RB" -> 2
      [] s = "REEFBUDDY" -> 9
      [] s = "AI ANALYSIS" -> 11
      [] s = "ENTER MEASUREMENTS" -> 18
      [] s = "ANALYZE PARAMETERS" -> 18
      [] s = "HISTORY & TRENDS" -> 16

\* draw.textbbox((0, 0), text, font=font): (left, top, right, bottom) of the
\* text as the font lays it out.  The metrics belong to the font file; what
\* the model keeps of them is that they depend on the text and on the font
\* that was resolved (its file and size), and on nothing else.
TextBBox(s, font) ==
    IF font.kind = "default"
    THEN <<0, 3, 6 * TextLen(s), 11>>
    ELSE IF font.path \in {BoldFonts[1], RegularFonts[1]}
    THEN <<0, font.size \div 5, TextLen(s) * ((font.size * 6) \div 10), font.size>>
    ELSE <<0, font.size \div 4, TextLen(s) * ((font.size * 5) \div 10), font.size>>

\* a canvas made with its sides exchanged
ImageNew_Swapped(mode, width, height, color) ==
    [mode |-> mode, size |-> <<height, width>>,
     ops |-> << [op |-> "fill", fill |-> color] >>]

\* Image.new(mode, (width, height), color)
ImageNew(mode, width, height, color) ==
    [mode |-> mode, size |-> <<width, height>>,
     ops |-> << [op |-> "fill", fill |-> color] >>]

\* ImageDraw.Draw(image) draws in place: the pixels change, the size of
\* the image does not (what falls outside the canvas is clipped)
Draw(image, ops) == [image EXCEPT !.ops = @ \o ops]

DrawRectangle(xy, fill) == << [op |-> "rectangle", xy |-> xy, fill |-> fill] >>

DrawText(xy, s, font, fill) ==
    << [op |-> "text", xy |-> xy, text |-> s, font |-> font, fill |-> fill] >>

DrawLine(p, q, fill, width) ==
    << [op |-> "line", xy |-> <<p, q>>, fill |-> fill, width |-> width] >>

RECURSIVE Flatten(_)
Flatten(ss) == IF ss = << >> THEN << >> ELSE Head(ss) \o Flatten(Tail(ss))

\* lines 54-60
draw_text_with_shadow(s, position, font, text_color, shadow_color, shadow_offset) ==
    LET shadow_pos == <<position[1] + shadow_offset[1], position[2] + shadow_offset[2]>>
    IN  DrawText(shadow_pos, s, font, shadow_color)
            \o DrawText(position, s, font, text_color)

\* lines 62-72
draw_border(bbox, width, color) ==
    LET x1 == bbox[1]
        y1 == bbox[2]
        x2 == bbox[3]
        y2 == bbox[4]
    IN  DrawRectangle(<<x1, y1, x2, y1 + width>>, color)
            \o DrawRectangle(<<x1, y2 - width, x2, y2>>, color)
            \o DrawRectangle(<<x1, y1, x1 + width, y2>>, color)
            \o DrawRectangle(<<x2 - width, y1, x2, y2>>, color)

\* line 76
ICON_SIZE == 1024

\* an icon whose canvas is cut to the measured text
create_app_icon_Cropped ==
    LET font == get_font(Pct(ICON_SIZE, 450), TRUE)
        bbox == TextBBox("RB", font)
    IN  Draw(ImageNew("RGB", bbox[3] - bbox[1], bbox[4] - bbox[2], "aquamarine"),
             draw_text_with_shadow("RB", <<0, 0>>, font, "white", "black", <<0, 0>>))

\* lines 74-103
create_app_icon ==
    LET size == ICON_SIZE
        font_size == Pct(size, 450)
        font == get_font(font_size, TRUE)
        bbox == TextBBox("RB", font)
        text_width == bbox[3] - bbox[1]
        text_height == bbox[4] - bbox[2]
        x == (size - text_width) \div 2
        y == (size - text_height) \div 2
        shadow_offset == Pct(size, 20)
    IN  Draw(ImageNew("RGB", size, size, "aquamarine"),
             draw_border(<<0, 0, size, size>>, Pct(size, 30), "black")
                \o draw_text_with_shadow("RB", <<x, y>>, font, "white", "black",
                                         <<shadow_offset, shadow_offset>>))

\* lines 105-203
create_screenshot_tank_list(width, height) ==
    LET status_height == Pct(height, 60)
        header_height == Pct(height, 120)
        header_y == status_height
        title_font == get_font(Pct(width, 80), TRUE)
        bbox == TextBBox("REEFBUDDY", title_font)
        title_x == Pct(width, 50)
        title_y == header_y + (header_height - (bbox[4] - bbox[2])) \div 2
        badge_x == width - Pct(width, 250)
        badge_y == header_y + Pct(header_height, 300)
        badge_w == Pct(width, 200)
        badge_h == Pct(header_height, 400)
        badge_font == get_font(Pct(width, 30), TRUE)
        content_y == header_y + header_height
        content_height == height - content_y - Pct(height, 100)
        card_spacing == Pct(height, 30)
        card_height == Pct(content_height, 250)
        card_width == width - Pct(width, 100)
        card_x == Pct(width, 50)
        tanks == << <<"Reef Tank 1", "125 gal", "Active">>,
                    <<"Nano Reef", "30 gal", "Active">>,
                    <<"Frag Tank", "40 gal", "Inactive">> >>
        Card(i) ==
            LET name == tanks[i + 1][1]
                volume == tanks[i + 1][2]
                status == tanks[i + 1][3]
                card_y == content_y + (card_height + card_spacing) * i + Pct(height, 20)
                shadow_offset == 5
                name_font == get_font(Pct(width, 50), TRUE)
                volume_font == get_font(Pct(width, 35), FALSE)
                status_x == card_x + card_width - Pct(width, 150)
                status_y == card_y + 15
                status_w == Pct(width, 120)
                status_h == Pct(card_height, 250)
                status_font == get_font(Pct(width, 25), TRUE)
            IN  DrawRectangle(<<card_x + shadow_offset, card_y + shadow_offset,
                                card_x + card_width + shadow_offset,
                                card_y + card_height + shadow_offset>>, "black")
                  \o DrawRectangle(<<card_x, card_y, card_x + card_width,
                                     card_y + card_height>>, "white")
                  \o draw_border(<<card_x, card_y, card_x + card_width,
                                   card_y + card_height>>, 3, "black")
                  \o DrawText(<<card_x + 20, card_y + 15>>, name, name_font, "black")
                  \o DrawText(<<card_x + 20, card_y + 50>>, volume, volume_font, "gray")
                  \o (IF status = "Active"
                      THEN DrawRectangle(<<status_x, status_y, status_x + status_w,
                                           status_y + status_h>>, "aquamarine")
                             \o draw_border(<<status_x, status_y, status_x + status_w,
                                              status_y + status_h>>, 2, "black")
                             \o DrawText(<<status_x + 5, status_y + 3>>, "ACTIVE",
                                         status_font, "black")
                      ELSE << >>)
        tab_y == height - Pct(height, 100)
        tabs == <<"TANKS", "MEASURE", "HISTORY", "SETTINGS">>
        tab_width == width \div Len(tabs)
        tab_font == get_font(Pct(width, 25), TRUE)
        Tab(i) ==
            LET tab_x == i * tab_width
            IN  (IF i = 0
                 THEN DrawRectangle(<<tab_x, tab_y, tab_x + tab_width, height>>,
                                    "aquamarine")
                 ELSE << >>)
                  \o DrawText(<<tab_x + tab_width \div 4, tab_y + 10>>, tabs[i + 1],
                              tab_font, "black")
    IN  Draw(ImageNew("RGB", width, height, "white"),
             DrawRectangle(<<0, 0, width, status_height>>, "white")
                \o DrawRectangle(<<0, header_y, width, header_y + header_height>>, "white")
                \o DrawText(<<title_x, title_y>>, "REEFBUDDY", title_font, "black")
                \o DrawRectangle(<<badge_x, badge_y, badge_x + badge_w, badge_y + badge_h>>,
                                 "aquamarine")
                \o draw_border(<<badge_x, badge_y, badge_x + badge_w, badge_y + badge_h>>,
                               3, "black")
                \o DrawText(<<badge_x + 10, badge_y + 5>>, "FREE", badge_font, "black")
                \o Flatten([i \in 1..Len(tanks) |-> Card(i - 1)])
                \o DrawRectangle(<<0, tab_y, width, height>>, "white")
                \o draw_border(<<0, tab_y, width, height>>, 3, "black")
                \o Flatten([i \in 1..Len(tabs) |-> Tab(i - 1)]))

\* lines 205-306 (the arrow, check mark, warning sign and bullet of the
\* source's strings are written in ASCII)
create_screenshot_analysis(width, height) ==
    LET status_height == Pct(height, 60)
        header_height == Pct(height, 100)
        header_y == status_height
        back_font == get_font(Pct(width, 40), TRUE)
        title_font == get_font(Pct(width, 60), TRUE)
        bbox == TextBBox("AI ANALYSIS", title_font)
        title_x == (width - (bbox[3] - bbox[1])) \div 2
        content_y == header_y + header_height
        scroll_y1 == content_y
        grid_title_font == get_font(Pct(width, 50), TRUE)
        scroll_y2 == scroll_y1 + Pct(height, 80)
        params == << <<"pH", "8.2", "ok", "aquamarine">>,
                     <<"Alkalinity", "8.5 dKH", "ok", "aquamarine">>,
                     <<"Calcium", "420 ppm", "ok", "aquamarine">>,
                     <<"Nitrate", "5 ppm", "warn", "orange">> >>
        card_w == Pct(width, 420)
        card_h == Pct(height, 120)
        card_spacing == Pct(width, 30)
        Card(i) ==
            LET name == params[i + 1][1]
                value == params[i + 1][2]
                status == params[i + 1][3]
                color == params[i + 1][4]
                row == i \div 2
                col == i % 2
                card_x == Pct(width, 50) + col * (card_w + card_spacing)
                card_y == scroll_y2 + row * (card_h + card_spacing)
                shadow_offset == 5
                name_font == get_font(Pct(width, 35), TRUE)
                value_font == get_font(Pct(width, 40), FALSE)
                status_font == get_font(Pct(width, 50), TRUE)
            IN  DrawRectangle(<<card_x + shadow_offset, card_y + shadow_offset,
                                card_x + card_w + shadow_offset,
                                card_y + card_h + shadow_offset>>, "black")
                  \o DrawRectangle(<<card_x, card_y, card_x + card_w, card_y + card_h>>,
                                   "white")
                  \o draw_border(<<card_x, card_y, card_x + card_w, card_y + card_h>>,
                                 3, "black")
                  \o DrawText(<<card_x + 15, card_y + 10>>, name, name_font, "black")
                  \o DrawText(<<card_x + 15, card_y + 40>>, value, value_font, "gray")
                  \o DrawText(<<card_x + card_w - 40, card_y + 20>>, status,
                              status_font, color)
        scroll_y3 == scroll_y2 + Pct(height, 300)
        scroll_y4 == scroll_y3 + Pct(height, 80)
        rec_card_w == width - Pct(width, 100)
        rec_card_h == Pct(height, 120)
        rec_card_x == Pct(width, 50)
        rec_card_y == scroll_y4
        shadow_offset == 5
        rec_font == get_font(Pct(width, 35), FALSE)
    IN  Draw(ImageNew("RGB", width, height, "white"),
             DrawRectangle(<<0, header_y, width, header_y + header_height>>, "white")
                \o DrawText(<<Pct(width, 50), header_y + 20>>, "<- BACK", back_font, "black")
                \o DrawText(<<title_x, header_y + 15>>, "AI ANALYSIS", title_font, "black")
                \o DrawText(<<Pct(width, 50), scroll_y1 + 20>>, "PARAMETER STATUS",
                            grid_title_font, "black")
                \o Flatten([i \in 1..Len(params) |-> Card(i - 1)])
                \o DrawText(<<Pct(width, 50), scroll_y3 + 20>>, "RECOMMENDATIONS",
                            grid_title_font, "black")
                \o DrawRectangle(<<rec_card_x + shadow_offset, rec_card_y + shadow_offset,
                                   rec_card_x + rec_card_w + shadow_offset,
                                   rec_card_y + rec_card_h + shadow_offset>>, "black")
                \o DrawRectangle(<<rec_card_x, rec_card_y, rec_card_x + rec_card_w,
                                   rec_card_y + rec_card_h>>, "white")
                \o draw_border(<<rec_card_x, rec_card_y, rec_card_x + rec_card_w,
                                 rec_card_y + rec_card_h>>, 3, "black")
                \o DrawText(<<rec_card_x + 15, rec_card_y + 20>>,
                            "* Increase water changes to reduce nitrate", rec_font, "black"))

\* lines 308-390
create_screenshot_measurement(width, height) ==
    LET status_height == Pct(height, 60)
        header_height == Pct(height, 100)
        header_y == status_height
        title_font == get_font(Pct(width, 60), TRUE)
        bbox == TextBBox("ENTER MEASUREMENTS", title_font)
        title_x == (width - (bbox[3] - bbox[1])) \div 2
        content_y == header_y + header_height
        scroll_y == content_y + Pct(height, 20)
        params == << <<"pH", "8.2", "Target: 8.1-8.4">>,
                     <<"Alkalinity (dKH)", "8.5", "Target: 8-12 dKH">>,
                     <<"Calcium (ppm)", "420", "Target: 400-450 ppm">>,
                     <<"Magnesium (ppm)", "1350", "Target: 1300-1400 ppm">> >>
        input_h == Pct(height, 80)
        input_w == width - Pct(width, 100)
        input_x == Pct(width, 50)
        input_spacing == Pct(height, 20)
        Input(i) ==
            LET label == params[i + 1][1]
                value == params[i + 1][2]
                target == params[i + 1][3]
                input_y == scroll_y + i * (input_h + input_spacing)
                label_font == get_font(Pct(width, 35), TRUE)
                field_y == input_y + Pct(height, 40)
                value_font == get_font(Pct(width, 40), FALSE)
                target_font == get_font(Pct(width, 25), FALSE)
            IN  DrawText(<<input_x, input_y>>, label, label_font, "black")
                  \o DrawRectangle(<<input_x, field_y, input_x + input_w,
                                     field_y + input_h>>, "white")
                  \o draw_border(<<input_x, field_y, input_x + input_w,
                                   field_y + input_h>>, 3, "black")
                  \o DrawText(<<input_x + 15, field_y + 15>>, value, value_font, "black")
                  \o DrawText(<<input_x, field_y + input_h + 5>>, target, target_font,
                              "gray")
        button_y == scroll_y + Len(params) * (input_h + input_spacing) + Pct(height, 50)
        button_h == Pct(height, 80)
        button_w == width - Pct(width, 100)
        button_x == Pct(width, 50)
        shadow_offset == 5
        button_font == get_font(Pct(width, 45), TRUE)
        button_text == "ANALYZE PARAMETERS"
        bbox2 == TextBBox(button_text, button_font)
        button_text_x == button_x + (button_w - (bbox2[3] - bbox2[1])) \div 2
        button_text_y == button_y + (button_h - (bbox2[4] - bbox2[2])) \div 2
    IN  Draw(ImageNew("RGB", width, height, "white"),
             DrawRectangle(<<0, header_y, width, header_y + header_height>>, "white")
                \o DrawText(<<title_x, header_y + 15>>, "ENTER MEASUREMENTS", title_font,
                            "black")
                \o Flatten([i \in 1..Len(params) |-> Input(i - 1)])
                \o DrawRectangle(<<button_x + shadow_offset, button_y + shadow_offset,
                                   button_x + button_w + shadow_offset,
                                   button_y + button_h + shadow_offset>>, "black")
                \o DrawRectangle(<<button_x, button_y, button_x + button_w,
                                   button_y + button_h>>, "aquamarine")
                \o draw_border(<<button_x, button_y, button_x + button_w,
                                 button_y + button_h>>, 3, "black")
                \o DrawText(<<button_text_x, button_text_y>>, button_text, button_font,
                            "black"))

\* a chart whose line is drawn from a seed that moves on between calls (a
\* random or clock-driven jitter); the count of lines printed so far stands
\* for the seed
create_screenshot_chart_Jitter(width, height) ==
    LET chart_h == Pct(height, 400)
        chart_w == width - Pct(width, 100)
        chart_x == Pct(width, 50)
        chart_y == Pct(height, 190)
        seed == Len(log)
        line_points ==
            [k \in 1..10 |->
                << chart_x + ((k - 1) * chart_w) \div 9,
                   chart_y + chart_h - ((3 + ((k + seed) % 3)) * chart_h) \div 10 >>]
    IN  Draw(ImageNew("RGB", width, height, "white"),
             Flatten([i \in 1..(Len(line_points) - 1) |->
                        DrawLine(line_points[i], line_points[i + 1], "black", 4)]))

\* lines 392-473.  int((i / 9) * chart_w) and int((0.3 + (i % 3) * 0.1) * chart_h)
\* equal the integer quotients below for every 0 <= chart_w, chart_h < 3000
create_screenshot_chart(width, height) ==
    LET status_height == Pct(height, 60)
        header_height == Pct(height, 100)
        header_y == status_height
        title_font == get_font(Pct(width, 60), TRUE)
        bbox == TextBBox("HISTORY & TRENDS", title_font)
        title_x == (width - (bbox[3] - bbox[1])) \div 2
        content_y == header_y + header_height
        chart_y == content_y + Pct(height, 30)
        chart_h == Pct(height, 400)
        chart_w == width - Pct(width, 100)
        chart_x == Pct(width, 50)
        line_points ==
            [k \in 1..10 |->
                LET i == k - 1
                IN  << chart_x + (i * chart_w) \div 9,
                       chart_y + chart_h - ((3 + (i % 3)) * chart_h) \div 10 >>]
        label_font == get_font(Pct(width, 25), FALSE)
        list_y1 == chart_y + chart_h + Pct(height, 50)
        list_title_font == get_font(Pct(width, 40), TRUE)
        list_y2 == list_y1 + Pct(height, 60)
        measurements == << <<"Jan 15, 2024", "pH: 8.2 | Alk: 8.5 | Ca: 420">>,
                           <<"Jan 12, 2024", "pH: 8.1 | Alk: 8.3 | Ca: 415">>,
                           <<"Jan 10, 2024", "pH: 8.3 | Alk: 8.4 | Ca: 425">> >>
        item_h == Pct(height, 60)
        item_spacing == Pct(height, 20)
        Item(i) ==
            LET date == measurements[i + 1][1]
                params == measurements[i + 1][2]
                item_y == list_y2 + i * (item_h + item_spacing)
                item_w == chart_w
                date_font == get_font(Pct(width, 30), TRUE)
                param_font == get_font(Pct(width, 25), FALSE)
            IN  DrawRectangle(<<chart_x, item_y, chart_x + item_w, item_y + item_h>>,
                              "white")
                  \o draw_border(<<chart_x, item_y, chart_x + item_w, item_y + item_h>>,
                                 2, "black")
                  \o DrawText(<<chart_x + 10, item_y + 10>>, date, date_font, "black")
                  \o DrawText(<<chart_x + 10, item_y + 35>>, params, param_font, "gray")
    IN  Draw(ImageNew("RGB", width, height, "white"),
             DrawRectangle(<<0, header_y, width, header_y + header_height>>, "white")
                \o DrawText(<<title_x, header_y + 15>>, "HISTORY & TRENDS", title_font,
                            "black")
                \o DrawRectangle(<<chart_x, chart_y, chart_x + chart_w, chart_y + chart_h>>,
                                 "white")
                \o draw_border(<<chart_x, chart_y, chart_x + chart_w, chart_y + chart_h>>,
                               3, "black")
                \o Flatten([i \in 1..(Len(line_points) - 1) |->
                              DrawLine(line_points[i], line_points[i + 1], "black", 4)])
                \o DrawText(<<chart_x + 10, chart_y + 10>>, "pH", label_font, "black")
                \o DrawText(<<chart_x + 10, chart_y + chart_h - 20>>, "8.0", label_font,
                            "gray")
                \o DrawText(<<chart_x + chart_w - 50, chart_y + chart_h - 20>>, "8.4",
                            label_font, "gray")
                \o DrawText(<<chart_x, list_y1>>, "RECENT MEASUREMENTS", list_title_font,
                            "black")
                \o Flatten([i \in 1..Len(measurements) |-> Item(i - 1)]))

----------------------------------------------------------------------------
(* src/generate-store-assets.py: main *)

\* line 477
assets_dir == << "assets", "upload-store" >>

\* lines 488-494: the device keys, in the order the loop visits them
screenshot_configs ==
    << "iphone_67", "iphone_65", "iphone_55", "ipad_129", "ipad_11" >>

\* lines 496-501: the view keys, in the order the loop visits them
screenshot_views == << "tank-list", "analysis", "measurement", "chart" >>

\* lines 496-501 and 512: the function the table pairs with the view key
view_func(view_key, width, height) ==
    CASE view_key = "tank-list"   -> create_screenshot_tank_list(width, height)
      [] view_key = "analysis"    -> create_screenshot_analysis(width, height)
      [] view_key = "measurement" -> create_screenshot_measurement(width, height)
      [] view_key = "chart"       -> create_screenshot_chart(width, height)

\* line 485
icon_path == [dir |-> assets_dir, name |-> << "AppIcon-1024" >>]

\* line 505
device_dir(device_key) == Append(assets_dir, device_key)

\* a file name that leaves the view key out
screenshot_path_NoView(device_key, view_key) ==
    [dir |-> device_dir(device_key), name |-> <<device_key, "screenshot">>]

\* lines 513-514: device_dir / f"{device_key}_{view_key}.png"
screenshot_path(device_key, view_key) ==
    [dir |-> device_dir(device_key), name |-> <<device_key, view_key>>]

\* an exception nobody catches ends the generator where it is
Crash ==
    /\ pc' = "g_crashed"
    /\ UNCHANGED <<dirs, files, log, gvars>>

\* lines 477-478: output_dir.mkdir(parents=True, exist_ok=True)
GenMakeDir ==
    /\ prog = "generator" /\ pc = "g_main"
    /\ \E ok \in BOOLEAN :
         /\ (assets_dir \in dirs) => ok
         /\ IF ok
            THEN /\ dirs' = dirs \cup Parents(assets_dir)
                 /\ pc' = "g_icon"
                 /\ UNCHANGED <<files, log, gvars>>
            ELSE Crash
    /\ UNCHANGED <<prog, env, rvars>>

\* line 484
RenderIcon ==
    /\ prog = "generator" /\ pc = "g_icon"
    /\ canvas' = create_app_icon
    /\ pc' = "g_icon_save"
    /\ UNCHANGED <<prog, env, dirs, files, log, rvars, dev, view>>

\* lines 485-501: save the icon, then enter the loop over the devices
SaveIcon ==
    /\ prog = "generator" /\ pc = "g_icon_save"
    /\ \E ok \in BOOLEAN :
         IF ok
         THEN /\ files' = Write(files, icon_path, canvas)
              /\ dev' = 1
              /\ pc' = "g_device"
              /\ UNCHANGED <<dirs, log, view, canvas>>
         ELSE Crash
    /\ UNCHANGED <<prog, env, rvars>>

\* lines 503-508: the next device, its directory (mkdir(exist_ok=True))
DeviceDir ==
    /\ prog = "generator" /\ pc = "g_device"
    /\ dev <= Len(screenshot_configs)
    /\ \E ok \in BOOLEAN :
         LET device_key == screenshot_configs[dev]
         IN  /\ (device_dir(device_key) \in dirs) => ok
             /\ IF ok
                THEN /\ dirs' = dirs \cup {device_dir(device_key)}
                     /\ view' = 1
                     /\ pc' = "g_render"
                     /\ UNCHANGED <<files, log, dev, canvas>>
                ELSE Crash
    /\ UNCHANGED <<prog, env, rvars>>

\* lines 511-512
RenderView ==
    /\ prog = "generator" /\ pc = "g_render"
    /\ LET device_key == screenshot_configs[dev]
           width  == DEVICE_SIZES[device_key][1]
           height == DEVICE_SIZES[device_key][2]
       IN  canvas' = view_func(screenshot_views[view], width, height)
    /\ pc' = "g_save"
    /\ UNCHANGED <<prog, env, dirs, files, log, rvars, dev, view>>

\* lines 513-515, and the step of the two loops
SaveView ==
    /\ prog = "generator" /\ pc = "g_save"
    /\ \E ok \in BOOLEAN :
         LET device_key == screenshot_configs[dev]
             view_key   == screenshot_views[view]
         IN  IF ok
             THEN /\ files' = Write(files, screenshot_path(device_key, view_key), canvas)
                  /\ Say([msg |-> "saved", target |-> device_key, view |-> view_key])
                  /\ IF view < Len(screenshot_views)
                     THEN /\ view' = view + 1
                          /\ dev' = dev
                          /\ pc' = "g_render"
                     ELSE /\ view' = view
                          /\ dev' = dev + 1
                          /\ pc' = "g_device"
                  /\ UNCHANGED <<dirs, canvas>>
             ELSE Crash
    /\ UNCHANGED <<prog, env, rvars>>

\* lines 517-525: the loop is over
GenDone ==
    /\ prog = "generator" /\ pc = "g_device"
    /\ dev > Len(screenshot_configs)
    /\ pc' = "g_done"
    /\ UNCHANGED <<prog, env, dirs, files, log, rvars, gvars>>

GeneratorEnvs ==
    { [fonts |-> f, dirExists |-> d] : f \in SUBSET FontPaths, d \in BOOLEAN }

----------------------------------------------------------------------------

vars == <<prog, env, pc, dirs, files, log, rvars, gvars>>

InitResizer ==
    /\ prog = "resizer"
    /\ env \in ResizerEnvs
    /\ pc = "main"
    /\ img = NoImage
    /\ dirs = IF env.dirExists THEN Parents(output_dir) ELSE {}
    /\ files = << >>
    /\ idx = 0
    /\ success_count = 0
    /\ log = << >>
    /\ result = "none"
    /\ exitCode = NotExited
    /\ met = << >>
    /\ dev = 0 /\ view = 0 /\ canvas = NoImage

InitGenerator ==
    /\ prog = "generator"
    /\ env \in GeneratorEnvs
    /\ pc = "g_main"
    /\ dirs = IF env.dirExists THEN Parents(assets_dir) ELSE {}
    /\ files = << >>
    /\ log = << >>
    /\ img = NoImage /\ idx = 0 /\ success_count = 0
    /\ result = "none" /\ exitCode = NotExited /\ met = << >>
    /\ dev = 0 /\ view = 0 /\ canvas = NoImage

Init == InitResizer \/ InitGenerator

Next ==
    \/ Usage
    \/ Call
    \/ FileNotFound
    \/ FileFound
    \/ LoadImage
    \/ MakeDir
    \/ ResizeTarget
    \/ Return
    \/ Exit
    \/ GenMakeDir
    \/ RenderIcon
    \/ SaveIcon
    \/ DeviceDir
    \/ RenderView
    \/ SaveView
    \/ GenDone

Spec == Init /\ [][Next]_vars

----------------------------------------------------------------------------
(* The resizer's claims *)

\* the directories on disk when the run started
InitialDirs ==
    IF ~env.dirExists THEN {}
    ELSE IF prog = "resizer" THEN Parents(output_dir) ELSE Parents(assets_dir)

\* the loop passes that met the given outcomes
Passes(outcomes) == { i \in 1..Len(met) : met[i].outcome \in outcomes }

\* the targets the log reports with the given message
Reported(msg) == { log[i].target : i \in { j \in 1..Len(log) : log[j].msg = msg } }

Called == prog = "resizer" /\ Len(env.argv) >= 2
Returned == pc \in {"returned", "exited"}

\* C1: with an input path that does not exist, resize_screenshot returns
\* False, the command line exits non-zero, and nothing is written: no
\* directory is created, no file is written and no target is attempted.
C1_MissingInputNoWrites ==
    (Called /\ env.kind = "missing") =>
        /\ dirs = InitialDirs
        /\ DOMAIN files = {}
        /\ met = << >>
        /\ Reported("created") \cup Reported("warning") \cup Reported("error") = {}
        /\ Returned => result = "False"
        /\ pc = "exited" => exitCode # 0

C1_Witness ==
    /\ Called /\ env.kind = "missing" /\ ~env.dirExists
    /\ pc = "exited" /\ result = "False" /\ exitCode = 1
    /\ Reported("not_found") = {"-"}

\* C2: a failing target never stops the batch.  While the loop runs, the
\* passes made are the first targets of the table, one pass each, in order;
\* when resize_screenshot returns from the loop every one of the four
\* targets has been attempted exactly once and the success counter is the
\* number of passes whose resize, write and verify all succeeded; with
\* exactly one failing target the counter is 3.
C2_BatchNeverStops ==
    (Called /\ pc \in {"loop", "returned", "exited"} /\ result # "raised" /\ idx >= 1) =>
        /\ Len(met) <= Len(TargetOrder)
        /\ \A i \in 1..Len(met) : met[i].target = TargetOrder[i]
        /\ pc = "loop" => Len(met) = idx - 1
        /\ success_count = Cardinality(Passes({"ok"}))
        /\ Returned =>
             /\ Len(met) = 4
             /\ \A t \in Targets :
                  Cardinality({ i \in 1..Len(met) : met[i].target = t }) = 1
             /\ Cardinality(Passes(Outcomes \ {"ok"})) = 1 => success_count = 3

C2_Witness ==
    /\ Called /\ pc = "returned"
    /\ Len(met) = 4
    /\ met[2].outcome = "save_raise"
    /\ Passes({"ok"}) = {1, 3, 4}
    /\ success_count = 3

\* a run that passed the setup and in which no pass of the loop raised
OnlyMismatches ==
    /\ Called /\ pc = "exited"
    /\ Len(met) = Len(TargetOrder)
    /\ Passes({"resize_raise", "save_raise", "verify_raise"}) = {}

\* C3 as claimed: a run whose only anomaly is a dimension mismatch still
\* ends as an overall success.
C3_MismatchStillSucceeds ==
    OnlyMismatches => (result = "True" /\ exitCode = 0)

\* C3 as amended: a dimension mismatch is reported as a warning, not as an
\* error, and the remaining targets are still attempted, but the target is
\* not counted: the run ends as a success only if no target mismatched, and
\* as a failure (False, exit status 1) as soon as one did.
C3_MismatchWarnsAndFails ==
    OnlyMismatches =>
        /\ Reported("warning") = { met[i].target : i \in Passes({"mismatch"}) }
        /\ Reported("error") = {}
        /\ success_count = Len(TargetOrder) - Cardinality(Passes({"mismatch"}))
        /\ (result = "True") <=> (Passes({"mismatch"}) = {})
        /\ (exitCode = 0) <=> (Passes({"mismatch"}) = {})
        /\ exitCode \in {0, 1}

C3_Witness ==
    /\ OnlyMismatches
    /\ Passes({"mismatch"}) = {3}
    /\ Reported("warning") = {"iphone_65_portrait"}
    /\ Len(met) = 4
    /\ result = "False" /\ exitCode = 1

\* C4: the command line exits with status 0 exactly when every registered
\* target was written and verified, and with status 1 in every other case:
\* no argument, no input file, an image that does not decode, a directory
\* that cannot be made, or a target that is not verified.
C4_ExitCode ==
    (prog = "resizer" /\ pc = "exited") =>
        /\ exitCode \in {0, 1}
        /\ (exitCode = 0) <=>
              /\ Len(env.argv) >= 2
              /\ env.kind = "image"
              /\ Passes({"ok"}) = 1..4
        /\ (exitCode = 0) => Reported("created") = Targets

C4_Witness ==
    /\ prog = "resizer" /\ pc = "exited" /\ exitCode = 0
    /\ Len(env.argv) = 3
    /\ Passes({"ok"}) = 1..4
    /\ Cardinality(DOMAIN files) = 4

\* C5 as claimed: when the input image fails to decode, in Image.open or
\* later, resize_screenshot has not created the output directory, attempted
\* a target or written a file, and what it returns is failure.
C5_DecodeFailureAbortsBeforeWork ==
    (Called /\ env.kind \in {"not_image", "truncated"}) =>
        /\ dirs = InitialDirs
        /\ met = << >>
        /\ DOMAIN files = {}
        /\ (Returned /\ result \in {"True", "False"}) => result = "False"

\* C6 as claimed: no exception leaves resize_screenshot, whether the setup
\* fails or a target does, an output location that cannot be written
\* included: the call returns a boolean.
C6_NoExceptionPropagates ==
    (Called /\ Returned) => result \in {"True", "False"}

\* C7: an output that is counted as a success has exactly the dimensions
\* the table registers for its target, whatever the dimensions of the
\* input, the target's own included.
C7_Table ==
    [ iphone_67_portrait  |-> <<1284, 2778>>,
      iphone_67_landscape |-> <<2778, 1284>>,
      iphone_65_portrait  |-> <<1242, 2688>>,
      iphone_65_landscape |-> <<2688, 1242>> ]

C7_CountedOutputHasTargetSize ==
    Called =>
        /\ success_count = Cardinality(Reported("created"))
        /\ \A t \in Reported("created") :
             LET p == [dir |-> output_dir, name |-> <<t, view_name>>]
             IN  /\ p \in DOMAIN files
                 /\ files[p].image.size = C7_Table[t]

C7_Witness ==
    /\ Called /\ env.kind = "image"
    /\ env.size = <<1284, 2778>>
    /\ "iphone_67_portrait" \in Reported("created")
    /\ files[output_path("iphone_67_portrait")].image.size = <<1284, 2778>>
    /\ success_count >= 1

----------------------------------------------------------------------------
(* The generator's claims *)

C8_Table ==
    [ iphone_67 |-> <<1290, 2796>>,
      iphone_65 |-> <<1242, 2688>>,
      iphone_55 |-> <<1242, 2208>>,
      ipad_129  |-> <<2048, 2732>>,
      ipad_11   |-> <<1668, 2388>> ]

C8_Views == {"tank-list", "analysis", "measurement", "chart"}

\* C8: for every device of the table and every one of the four views, the
\* image the view function returns, after all its drawing, and the file
\* saved from it have exactly the (width, height) of the device.
C8_ViewHasRequestedSize ==
    prog = "generator" =>
        /\ pc = "g_save" =>
             /\ screenshot_configs[dev] \in DOMAIN C8_Table
             /\ screenshot_views[view] \in C8_Views
             /\ canvas.size = C8_Table[screenshot_configs[dev]]
        /\ \A d \in DOMAIN C8_Table : \A v \in C8_Views :
             LET p == [dir |-> <<"assets", "upload-store", d>>, name |-> <<d, v>>]
             IN  p \in DOMAIN files => files[p].image.size = C8_Table[d]
        /\ pc = "g_done" => Cardinality(DOMAIN files) = 21

C8_Witness ==
    /\ prog = "generator" /\ pc = "g_save"
    /\ screenshot_configs[dev] = "ipad_129" /\ screenshot_views[view] = "chart"
    /\ Len(canvas.ops) > 40
    /\ canvas.size = <<2048, 2732>>

\* C9: create_app_icon returns an image of exactly 1024 x 1024 pixels,
\* whichever font the fallback chain resolves to, and so is the file saved.
C9_IconIs1024 ==
    prog = "generator" =>
        /\ pc = "g_icon_save" => canvas.size = <<1024, 1024>>
        /\ icon_path \in DOMAIN files => files[icon_path].image.size = <<1024, 1024>>
        /\ pc \in {"g_device", "g_render", "g_save", "g_done"} => icon_path \in DOMAIN files

\* the icon drawn with the built-in default font
C9_Witness ==
    /\ prog = "generator" /\ pc = "g_icon_save"
    /\ env.fonts \cap {BoldFonts[1], BoldFonts[2]} = {}
    /\ env.fonts # {}
    /\ \E i \in 1..Len(canvas.ops) :
         canvas.ops[i].op = "text" /\ canvas.ops[i].font.kind = "default"
    /\ canvas.size = <<1024, 1024>>

C10_Devices == << "iphone_67", "iphone_65", "iphone_55", "ipad_129", "ipad_11" >>
C10_Views == << "tank-list", "analysis", "measurement", "chart" >>

C10_Icon == [dir |-> <<"assets", "upload-store">>, name |-> <<"AppIcon-1024">>]
C10_Path(d, v) == [dir |-> <<"assets", "upload-store", d>>, name |-> <<d, v>>]

\* the files on disk when the loops stand at device kd, view kv
C10_SavedBefore(kd, kv) ==
    {C10_Icon} \cup
    { C10_Path(C10_Devices[i], C10_Views[j]) :
        <<i, j>> \in { x \in (1..5) \X (1..4) : x[1] < kd \/ (x[1] = kd /\ x[2] < kv) } }

C10_Render(v, width, height) ==
    CASE v = "tank-list"   -> create_screenshot_tank_list(width, height)
      [] v = "analysis"    -> create_screenshot_analysis(width, height)
      [] v = "measurement" -> create_screenshot_measurement(width, height)
      [] v = "chart"       -> create_screenshot_chart(width, height)

\* C10: main writes one PNG per (device, view) pair, at
\* assets/upload-store/<device_key>/<device_key>_<view_key>.png, and the
\* icon at assets/upload-store/AppIcon-1024.png, and nothing else; no file
\* is written twice; when an image is rendered every image rendered before
\* it is on disk and no later one is; every screenshot file holds what the
\* view function of its view key returns at the size of its device key.  A
\* run that reaches its end has written all 21 files.
C10_OneFilePerPair ==
    prog = "generator" =>
        /\ \A p \in DOMAIN files : files[p].writes = 1
        /\ pc \in {"g_main", "g_icon", "g_icon_save"} => DOMAIN files = {}
        /\ pc = "g_device" => DOMAIN files = C10_SavedBefore(dev, 1)
        /\ pc \in {"g_render", "g_save"} => DOMAIN files = C10_SavedBefore(dev, view)
        /\ pc = "g_done" => DOMAIN files = C10_SavedBefore(6, 1)
        /\ pc = "g_crashed" => DOMAIN files \subseteq C10_SavedBefore(6, 1)
        /\ C10_Icon \in DOMAIN files => files[C10_Icon].image = create_app_icon
        /\ \A i \in 1..5 : \A j \in 1..4 :
             LET p == C10_Path(C10_Devices[i], C10_Views[j])
                 wh == C8_Table[C10_Devices[i]]
             IN  p \in DOMAIN files =>
                    files[p].image = C10_Render(C10_Views[j], wh[1], wh[2])
        /\ Len(log) = Cardinality(DOMAIN files \ {C10_Icon})

C10_Witness ==
    /\ prog = "generator" /\ pc = "g_done"
    /\ Cardinality(DOMAIN files) = 21
    /\ C10_Path("ipad_11", "chart") \in DOMAIN files
    /\ files[C10_Path("iphone_55", "analysis")].image.size = <<1242, 2208>>
    /\ files[C10_Path("iphone_55", "analysis")].image # files[C10_Path("iphone_55", "chart")].image

C12_Chain(bold) ==
    IF bold
    THEN << "/System/Library/Fonts/Supplemental/Arial Bold.ttf",
            "/Library/Fonts/Arial Bold.ttf" >>
    ELSE << "/System/Library/Fonts/Supplemental/Arial.ttf",
            "/Library/Fonts/Arial.ttf" >>

\* what the claim says a request resolves to
C12_Resolved(size, bold) ==
    IF C12_Chain(bold)[1] \in env.fonts
    THEN [kind |-> "truetype", path |-> C12_Chain(bold)[1], size |-> size]
    ELSE IF C12_Chain(bold)[2] \in env.fonts
    THEN [kind |-> "truetype", path |-> C12_Chain(bold)[2], size |-> size]
    ELSE [kind |-> "default", path |-> "-", size |-> 10]

\* texts of the four views with the request made for them: the fraction of
\* the width asked as size (in thousandths) and whether bold was asked
C12_Requests ==
    { <<"REEFBUDDY", 80, TRUE>>, <<"125 gal", 35, FALSE>>,
      <<"AI ANALYSIS", 60, TRUE>>, <<"8.5 dKH", 40, FALSE>>,
      <<"ENTER MEASUREMENTS", 60, TRUE>>, <<"Target: 8.1-8.4", 25, FALSE>>,
      <<"HISTORY & TRENDS", 60, TRUE>>, <<"8.0", 25, FALSE>> }

C12_TextOps(image) == { i \in 1..Len(image.ops) : image.ops[i].op = "text" }

\* C12: get_font never fails on a missing font.  Every text of every
\* rendered image is drawn, with a font that is the first candidate path of
\* its request (bold or regular) if that loads, otherwise the second
\* candidate path if that loads, otherwise the built-in default font.
C12_FontFallbackChain ==
    (prog = "generator" /\ pc \in {"g_icon_save", "g_save"}) =>
        /\ C12_TextOps(canvas) # {}
        /\ \A i \in C12_TextOps(canvas) :
             LET f == canvas.ops[i].font
             IN  \/ f = C12_Resolved(f.size, TRUE)
                 \/ f = C12_Resolved(f.size, FALSE)
        /\ pc = "g_icon_save" =>
             /\ Cardinality(C12_TextOps(canvas)) = 2
             /\ \A i \in C12_TextOps(canvas) :
                  /\ canvas.ops[i].text = "RB"
                  /\ canvas.ops[i].font = C12_Resolved(460, TRUE)
        /\ pc = "g_save" =>
             \A i \in C12_TextOps(canvas) : \A r \in C12_Requests :
                canvas.ops[i].text = r[1] =>
                    canvas.ops[i].font =
                        C12_Resolved((canvas.size[1] * r[2]) \div 1000, r[3])

\* the first bold candidate fails and the second loads; both regular
\* candidates fail
C12_Witness ==
    /\ prog = "generator" /\ pc = "g_save"
    /\ env.fonts = {"/Library/Fonts/Arial Bold.ttf"}
    /\ screenshot_views[view] = "tank-list"
    /\ \E i \in C12_TextOps(canvas) :
         /\ canvas.ops[i].text = "REEFBUDDY"
         /\ canvas.ops[i].font.kind = "truetype"
         /\ canvas.ops[i].font.path = "/Library/Fonts/Arial Bold.ttf"
    /\ \E i \in C12_TextOps(canvas) :
         /\ canvas.ops[i].text = "125 gal"
         /\ canvas.ops[i].font.kind = "default"

\* the passes of the loop that wrote their file: all but those whose resize
\* or save raised
C13_Written == Passes({"verify_raise", "mismatch", "ok"})

\* C13: resize_screenshot never rolls back.  At every point of the batch
\* the success counter is between 0 and the number of targets processed so
\* far, and no step lowers it; no step removes a directory or a file; and
\* when the call returns False after the setup checks, the output directory
\* is on disk and so is the file of every target that wrote one, the
\* earlier successes and the mismatched (written, not counted) included.
C13_NeverRollsBack ==
    /\ [](Called =>
            /\ 0 <= success_count
            /\ success_count <= Len(met)
            /\ pc = "loop" => Len(met) = idx - 1
            /\ (Returned /\ result = "False" /\ idx >= 1) =>
                 /\ output_dir \in dirs
                 /\ \A i \in C13_Written :
                      output_path(met[i].target) \in DOMAIN files
                 /\ Cardinality(DOMAIN files) = Cardinality(C13_Written)
                 /\ success_count = Cardinality(C13_Written)
                                      - Cardinality(Passes({"verify_raise", "mismatch"})))
    /\ [][Called =>
            /\ success_count' >= success_count
            /\ success_count' <= success_count + 1
            /\ dirs \subseteq dirs'
            /\ \A p \in DOMAIN files : p \in DOMAIN files' /\ files'[p] = files[p]]_vars

\* a failed batch: a success, a mismatch, a save that raised, a success
C13_Witness ==
    /\ Called /\ pc = "exited" /\ result = "False"
    /\ ~env.dirExists /\ output_dir \in dirs
    /\ Len(met) = 4
    /\ met[1].outcome = "ok" /\ met[2].outcome = "mismatch"
    /\ met[3].outcome = "save_raise" /\ met[4].outcome = "ok"
    /\ success_count = 2
    /\ DOMAIN files = { output_path("iphone_67_portrait"),
                        output_path("iphone_67_landscape"),
                        output_path("iphone_65_landscape") }
    /\ files[output_path("iphone_67_landscape")].image.size = <<1284, 2778>>

====
